---- MODULE Spec2Model ----
(***************************************************************************)
(* Model of python_script/data_loader.py: the converter of a 7-ELEVEN      *)
(* iMapSDKOutput XML document into a CSV aligned to the Location table.    *)
(*                                                                         *)
(* Text is a sequence of characters, each character a one-element string;  *)
(* a character outside ASCII is written as its code point ("U+5EC1").      *)
(* A float is a sign, a decimal mantissa and a decimal exponent (or nan,   *)
(* inf); the model's arithmetic is exact, which agrees with the binary     *)
(* doubles of the program on the sample values used here (integers and     *)
(* short decimals, scaled by 10^-6).                                       *)
(***************************************************************************)
EXTENDS Integers, Sequences, FiniteSets, TLC

-----------------------------------------------------------------------------
(* Text                                                                    *)

IsSpace(c) == c \in {" ", "\t", "\n"}

RECURSIVE LStrip(_)
LStrip(s) == IF s # <<>> /\ IsSpace(Head(s)) THEN LStrip(Tail(s)) ELSE s

RECURSIVE RStrip(_)
RStrip(s) ==
  IF s # <<>> /\ IsSpace(s[Len(s)]) THEN RStrip(SubSeq(s, 1, Len(s) - 1)) ELSE s

\* str.strip()
Strip(s) == RStrip(LStrip(s))

\* sub in s
Contains(sub, s) ==
  \E i \in 0..(Len(s) - Len(sub)) : SubSeq(s, i + 1, i + Len(sub)) = sub

RECURSIVE Zeros(_)
Zeros(n) == IF n <= 0 THEN <<>> ELSE <<"0">> \o Zeros(n - 1)

DigitChars == <<"0", "1", "2", "3", "4", "5", "6", "7", "8", "9">>

DigitValues == [c \in {DigitChars[d] : d \in 1..10} |->
                  (CHOOSE d \in 1..10 : DigitChars[d] = c) - 1]

IsDigit(c) == c \in DOMAIN DigitValues

DigitVal(c) == DigitValues[c]

\* the decimal digits of a natural number, most significant first
RECURSIVE NatToText(_)
NatToText(n) ==
  IF n < 10 THEN <<DigitChars[n + 1]>>
  ELSE NatToText(n \div 10) \o <<DigitChars[(n % 10) + 1]>>

\* the value of a non-empty run of digits
RECURSIVE DigitsToNat(_, _)
DigitsToNat(s, acc) ==
  IF s = <<>> THEN acc ELSE DigitsToNat(Tail(s), acc * 10 + DigitVal(Head(s)))

\* the longest prefix of s made of digits
RECURSIVE DigitPrefixLen(_)
DigitPrefixLen(s) ==
  IF s # <<>> /\ IsDigit(Head(s)) THEN 1 + DigitPrefixLen(Tail(s)) ELSE 0

UpperChars ==
  <<"A", "B", "C", "D", "E", "F", "G", "H", "I", "J", "K", "L", "M",
    "N", "O", "P", "Q", "R", "S", "T", "U", "V", "W", "X", "Y", "Z">>

LowerChars ==
  <<"a", "b", "c", "d", "e", "f", "g", "h", "i", "j", "k", "l", "m",
    "n", "o", "p", "q", "r", "s", "t", "u", "v", "w", "x", "y", "z">>

LowerOfUpper == [c \in {UpperChars[i] : i \in 1..26} |->
                   LowerChars[CHOOSE i \in 1..26 : UpperChars[i] = c]]

LowerChar(c) == IF c \in DOMAIN LowerOfUpper THEN LowerOfUpper[c] ELSE c

Lower(s) == [i \in 1..Len(s) |-> LowerChar(s[i])]

-----------------------------------------------------------------------------
(* Floats                                                                  *)

None == [k |-> "none", s |-> 1, m |-> 0, e |-> 0]
NaN == [k |-> "nan", s |-> 1, m |-> 0, e |-> 0]
Inf(sign) == [k |-> "inf", s |-> sign, m |-> 0, e |-> 0]

\* sign * m * 10^e with the trailing zeros of m moved into e
RECURSIVE Fin(_, _, _)
Fin(sign, m, e) ==
  IF m = 0 THEN [k |-> "fin", s |-> sign, m |-> 0, e |-> 0]
  ELSE IF m % 10 = 0 THEN Fin(sign, m \div 10, e + 1)
  ELSE [k |-> "fin", s |-> sign, m |-> m, e |-> e]

\* <<floor(m / 10^d), whether the division left a remainder>>
RECURSIVE ShiftDown(_, _, _)
ShiftDown(m, d, rem) ==
  IF d = 0 \/ m = 0 THEN <<m, rem>>
  ELSE ShiftDown(m \div 10, d - 1, rem \/ (m % 10 # 0))

\* the sign of m1 * 10^e1 - m2 * 10^e2, for naturals m1 and m2
CmpMag(m1, e1, m2, e2) ==
  IF e1 >= e2
  THEN LET q == ShiftDown(m2, e1 - e2, FALSE)
       IN  IF m1 > q[1] THEN 1
           ELSE IF m1 < q[1] THEN -1
           ELSE IF q[2] THEN -1 ELSE 0
  ELSE LET q == ShiftDown(m1, e2 - e1, FALSE)
       IN  IF q[1] > m2 THEN 1
           ELSE IF q[1] < m2 THEN -1
           ELSE IF q[2] THEN 1 ELSE 0

\* the sign of a - b for two floats that are not nan
Cmp(a, b) ==
  LET za == a.k = "fin" /\ a.m = 0
      zb == b.k = "fin" /\ b.m = 0
      sa == IF za THEN 0 ELSE a.s
      sb == IF zb THEN 0 ELSE b.s
  IN  IF sa # sb THEN (IF sa > sb THEN 1 ELSE -1)
      ELSE IF sa = 0 THEN 0
      ELSE IF a.k = "inf" /\ b.k = "inf" THEN 0
      ELSE IF a.k = "inf" THEN sa
      ELSE IF b.k = "inf" THEN -sa
      ELSE sa * CmpMag(a.m, a.e, b.m, b.e)

\* a > b and a <= b; every comparison with nan is false
Gt(a, b) == a.k # "nan" /\ b.k # "nan" /\ Cmp(a, b) = 1
Le(a, b) == a.k # "nan" /\ b.k # "nan" /\ Cmp(a, b) <= 0

\* abs(v)
Abs(v) == [v EXCEPT !.s = 1]

\* a wrong scale: v / 1_000.0
DivMillion_ByThousand(v) == IF v.k = "fin" THEN Fin(v.s, v.m, v.e - 3) ELSE v

\* v / 1_000_000.0
DivMillion(v) == IF v.k = "fin" THEN Fin(v.s, v.m, v.e - 6) ELSE v

\* float(s) of a stripped, non-empty text, None where Python raises
\* ValueError: a sign, then nan, inf, infinity or digits with an optional
\* point and an optional exponent

\* the exponent after the "e": an optional sign and at least one digit
FloatExponent(sign, int, frac, expAll) ==
  LET expSign == IF expAll # <<>> /\ Head(expAll) = "-" THEN -1 ELSE 1
      expDigits ==
        IF expAll # <<>> /\ Head(expAll) \in {"+", "-"} THEN Tail(expAll) ELSE expAll
  IN  IF expDigits # <<>> /\ DigitPrefixLen(expDigits) = Len(expDigits)
      THEN Fin(sign, DigitsToNat(int \o frac, 0),
               expSign * DigitsToNat(expDigits, 0) - Len(frac))
      ELSE None

\* what follows the digits int.frac
FloatSuffix(sign, int, frac, rest) ==
  IF int = <<>> /\ frac = <<>> THEN None
  ELSE IF rest = <<>> THEN Fin(sign, DigitsToNat(int \o frac, 0), -Len(frac))
  ELSE IF Head(rest) \in {"e", "E"} THEN FloatExponent(sign, int, frac, Tail(rest))
  ELSE None

\* the digits after the point
FloatFraction(sign, int, fracAll) ==
  LET nf == DigitPrefixLen(fracAll)
  IN  FloatSuffix(sign, int, SubSeq(fracAll, 1, nf), SubSeq(fracAll, nf + 1, Len(fracAll)))

\* the digits before the point
FloatNumber(sign, body, ni) ==
  IF ni < Len(body) /\ body[ni + 1] = "."
  THEN FloatFraction(sign, SubSeq(body, 1, ni), SubSeq(body, ni + 2, Len(body)))
  ELSE FloatSuffix(sign, SubSeq(body, 1, ni), <<>>, SubSeq(body, ni + 1, Len(body)))

FloatUnsigned(sign, body) ==
  IF Lower(body) = <<"n", "a", "n">> THEN NaN
  ELSE IF Lower(body) \in {<<"i", "n", "f">>,
                           <<"i", "n", "f", "i", "n", "i", "t", "y">>} THEN Inf(sign)
  ELSE FloatNumber(sign, body, DigitPrefixLen(body))

FloatOf(t) ==
  IF Head(t) \in {"+", "-"}
  THEN FloatUnsigned(IF Head(t) = "-" THEN -1 ELSE 1, Tail(t))
  ELSE FloatUnsigned(1, t)

\* _parse_float
parse_float(s) ==
  LET t == Strip(s)
  IN  IF t = <<>> THEN None ELSE FloatOf(t)

\* repr(v) of a float, as str() and the csv writer produce it
FloatRepr(v) ==
  LET sg == IF v.s = -1 THEN <<"-">> ELSE <<>>
      d == NatToText(v.m)
      n == Len(d)
      x == n + v.e - 1
      ax == IF x < 0 THEN -x ELSE x
      fixed ==
        IF v.e >= 0 THEN d \o Zeros(v.e) \o <<".", "0">>
        ELSE IF n + v.e > 0
             THEN SubSeq(d, 1, n + v.e) \o <<".">> \o SubSeq(d, n + v.e + 1, n)
        ELSE <<"0", ".">> \o Zeros(-(n + v.e)) \o d
      sci ==
        <<d[1]>> \o (IF n > 1 THEN <<".">> \o SubSeq(d, 2, n) ELSE <<>>)
          \o <<"e", IF x < 0 THEN "-" ELSE "+">>
          \o (IF ax < 10 THEN <<"0">> ELSE <<>>) \o NatToText(ax)
  IN  CASE v.k = "nan" -> <<"n", "a", "n">>
        [] v.k = "inf" -> sg \o <<"i", "n", "f">>
        [] v.k = "fin" /\ v.m = 0 -> sg \o <<"0", ".", "0">>
        [] OTHER -> sg \o (IF x >= -4 /\ x < 16 THEN fixed ELSE sci)

-----------------------------------------------------------------------------
(* Python values held in the row dictionaries                              *)

PyStr(t) == [py |-> "str", v |-> t]
PyFloat(f) == [py |-> "float", v |-> f]
PyBool(b) == [py |-> "bool", v |-> b]

\* value == ""
IsEmptyStr(val) == val.py = "str" /\ val.v = <<>>

\* the text the csv writer puts in a cell: a str as it is, otherwise str(value)
CsvCell(val) ==
  CASE val.py = "str" -> val.v
    [] val.py = "float" -> FloatRepr(val.v)
    [] val.py = "bool" -> IF val.v THEN <<"True">> ELSE <<"False">>

-----------------------------------------------------------------------------
(* Literals of the program. A fixed label that is only copied is written   *)
(* as one token.                                                           *)

\* "02" followed by U+5EC1 U+6240, the service tag of a public restroom
TOILET_MARKER == <<"0", "2", "U+5EC1", "U+6240">>

BRAND == <<"7-ELEVEN">>
ADDRESS_LABEL == <<"U+5730", "U+5740", "U+FF1A">>
TEL_LABEL == <<"U+96FB", "U+8A71", "U+FF1A">>
OP_TIME_LABEL == <<"U+71DF", "U+696D", "U+6642", "U+9593", "U+FF1A">>
SEPARATOR == <<"U+FF1B">>

K_poiid == <<"p", "o", "i", "i", "d">>
K_poiname == <<"p", "o", "i", "n", "a", "m", "e">>
K_address == <<"a", "d", "d", "r", "e", "s", "s">>
K_telno == <<"t", "e", "l", "n", "o">>
K_op_time == <<"o", "p", "_", "t", "i", "m", "e">>
K_storeimagetitle ==
  <<"s", "t", "o", "r", "e", "i", "m", "a", "g", "e", "t", "i", "t", "l", "e">>
K_x == <<"x">>
K_y == <<"y">>
K_geoposition == <<"g", "e", "o", "p", "o", "s", "i", "t", "i", "o", "n">>

\* abs(v) > 1000 is the test for micro-degrees
MICRO_THRESHOLD == Fin(1, 1000, 0)

\* the Taiwan range of the sanity check
LAT_MIN == Fin(1, 20, 0)
LAT_MAX == Fin(1, 27, 0)
LNG_MIN == Fin(1, 118, 0)
LNG_MAX == Fin(1, 1235, -1)

-----------------------------------------------------------------------------
(* _normalize_lng_lat                                                      *)

\* the test written abs(v) >= 1000
Rescale_AtThreshold(v) ==
  IF Gt(Abs(v), MICRO_THRESHOLD) \/ Abs(v) = MICRO_THRESHOLD THEN DivMillion(v) ELSE v

Rescale(v) == IF Gt(Abs(v), MICRO_THRESHOLD) THEN DivMillion(v) ELSE v

\* the test written "x is None and y is None": one axis may come back alone
normalize_lng_lat_Partial(x_raw, y_raw) ==
  LET x == parse_float(x_raw)
      y == parse_float(y_raw)
  IN  IF x = None /\ y = None THEN <<None, None>>
      ELSE <<IF x = None THEN None ELSE Rescale(x),
             IF y = None THEN None ELSE Rescale(y)>>

\* <<lng, lat>>, None for an absent value
normalize_lng_lat(x_raw, y_raw) ==
  LET x == parse_float(x_raw)
      y == parse_float(y_raw)
  IN  IF x = None \/ y = None THEN <<None, None>>
      ELSE <<Rescale(x), Rescale(y)>>

-----------------------------------------------------------------------------
(* The XML document: the elements whose "end" event iterparse delivers,    *)
(* in document order. An element is its tag and its children; a child is   *)
(* its tag and its text (nil when the element has no text).                *)

Child(tag, text) == [tag |-> tag, nil |-> FALSE, text |-> text]
NilChild(tag) == [tag |-> tag, nil |-> TRUE, text |-> <<>>]
Element(tag, children) == [tag |-> tag, children |-> children]

\* _safe_text
safe_text(elem) == IF elem.nil THEN <<>> ELSE Strip(elem.text)

\* _element_to_dict_case_insensitive: a later child with the same tag wins
RECURSIVE ChildrenToDict(_, _)
ChildrenToDict(children, out) ==
  IF children = <<>> THEN out
  ELSE LET child == Head(children)
           tag == Lower(Strip(child.tag))
       IN  ChildrenToDict(Tail(children),
             [k \in DOMAIN out \cup {tag} |->
                IF k = tag THEN safe_text(child) ELSE out[k]])

element_to_dict_case_insensitive(parent) ==
  ChildrenToDict(parent.children, [k \in {} |-> <<>>])

\* store.get(key, "")
Get(store, key) == IF key \in DOMAIN store THEN store[key] ELSE <<>>

IsTarget(elem) == Lower(Strip(elem.tag)) = K_geoposition

-----------------------------------------------------------------------------
(* build_location_row                                                      *)

\* SEPARATOR.join(parts), for at least one part
RECURSIVE Join(_)
Join(parts) ==
  IF Len(parts) = 1 THEN parts[1] ELSE parts[1] \o SEPARATOR \o Join(Tail(parts))

build_location_row(store) ==
  LET poiid == Get(store, K_poiid)
      name == Strip(Get(store, K_poiname))
      address == Strip(Get(store, K_address))
      tel == Strip(Get(store, K_telno))
      op_time == Strip(Get(store, K_op_time))
      services == Strip(Get(store, K_storeimagetitle))
      lnglat == normalize_lng_lat(Get(store, K_x), Get(store, K_y))
      lng == lnglat[1]
      lat == lnglat[2]
      has_toilet == Contains(TOILET_MARKER, services)
      desc_parts ==
        (IF address # <<>> THEN <<ADDRESS_LABEL \o address>> ELSE <<>>)
          \o (IF tel # <<>> THEN <<TEL_LABEL \o tel>> ELSE <<>>)
          \o (IF op_time # <<>> THEN <<OP_TIME_LABEL \o op_time>> ELSE <<>>)
      description ==
        IF desc_parts # <<>> THEN Join(desc_parts) \o SEPARATOR ELSE <<>>
      prisma_row ==
        [name |-> PyStr(IF name # <<>> THEN BRAND \o <<" ">> \o name ELSE BRAND),
         description |-> PyStr(description),
         type |-> PyStr(<<"TOILET">>),
         lat |-> IF lat # None THEN PyFloat(lat) ELSE PyStr(<<>>),
         lng |-> IF lng # None THEN PyFloat(lng) ELSE PyStr(<<>>),
         floor |-> PyStr(<<>>),
         hasTissue |-> PyBool(FALSE),
         hasDryer |-> PyBool(FALSE),
         hasSeat |-> PyBool(FALSE),
         hasDiaperTable |-> PyBool(FALSE),
         hasWaterDispenser |-> PyBool(FALSE),
         hasAutoDoor |-> PyBool(FALSE),
         hasHandrail |-> PyBool(FALSE)]
      debug_row ==
        [source |-> PyStr(<<"7-ELEVEN iMapSDKOutput">>),
         poiid |-> PyStr(poiid),
         poiname |-> PyStr(name),
         address |-> PyStr(address),
         telno |-> PyStr(tel),
         op_time |-> PyStr(op_time),
         services |-> PyStr(services),
         x_raw |-> PyStr(Get(store, K_x)),
         y_raw |-> PyStr(Get(store, K_y)),
         has_toilet_service_tag |-> PyBool(has_toilet)]
  IN  <<prisma_row, debug_row>>

-----------------------------------------------------------------------------
(* The columns and the csv writer                                          *)

prisma_fields ==
  <<"name", "description", "type", "lat", "lng", "floor", "hasTissue",
    "hasDryer", "hasSeat", "hasDiaperTable", "hasWaterDispenser",
    "hasAutoDoor", "hasHandrail">>

debug_fields ==
  <<"source", "poiid", "poiname", "address", "telno", "op_time", "services",
    "x_raw", "y_raw", "has_toilet_service_tag">>

\* the debug columns put first
fieldnames_DebugFirst(include_debug) ==
  (IF include_debug THEN debug_fields ELSE <<>>) \o prisma_fields

fieldnames(include_debug) ==
  prisma_fields \o (IF include_debug THEN debug_fields ELSE <<>>)

\* writer.writeheader(): one cell per column, holding its name
HeaderRow(fields) == [i \in 1..Len(fields) |-> <<fields[i]>>]

\* row = dict(prisma_row); if include_debug: row.update(debug_row)
MergedRow(p_row, d_row, include_debug) ==
  IF include_debug
  THEN [f \in DOMAIN p_row \cup DOMAIN d_row |->
          IF f \in DOMAIN d_row THEN d_row[f] ELSE p_row[f]]
  ELSE p_row

\* writer.writerow(row): the cells in the order of the columns
CsvRow(row, fields) == [i \in 1..Len(fields) |-> CsvCell(row[fields[i]])]

\* has_toilet as export_csv computes it, from the services of the debug row
ExportHasToilet(d_row) == Contains(TOILET_MARKER, d_row.services.v)

\* the range taken without its upper edges
InTaiwanRange_Strict(lat_f, lng_f) ==
  /\ Le(LAT_MIN, lat_f) /\ Gt(LAT_MAX, lat_f)
  /\ Le(LNG_MIN, lng_f) /\ Gt(LNG_MAX, lng_f)

\* 20.0 <= lat_f <= 27.0 and 118.0 <= lng_f <= 123.5
InTaiwanRange(lat_f, lng_f) ==
  /\ Le(LAT_MIN, lat_f) /\ Le(lat_f, LAT_MAX)
  /\ Le(LNG_MIN, lng_f) /\ Le(lng_f, LNG_MAX)

-----------------------------------------------------------------------------
(* Sample documents                                                        *)

G_GeoPosition == <<"G", "e", "o", "P", "o", "s", "i", "t", "i", "o", "n">>
G_upper == <<"G", "E", "O", "P", "O", "S", "I", "T", "I", "O", "N">>
G_MessageID == <<"M", "e", "s", "s", "a", "g", "e", "I", "D">>
G_POIName == <<"P", "O", "I", "N", "a", "m", "e">>
G_Address == <<"A", "d", "d", "r", "e", "s", "s">>
G_Telno == <<"T", "e", "l", "n", "o">>
G_OP_TIME == <<"O", "P", "_", "T", "I", "M", "E">>
G_StoreImageTitle ==
  <<"S", "t", "o", "r", "e", "I", "m", "a", "g", "e", "T", "i", "t", "l", "e">>

T_micro_x == <<"1", "2", "1", "5", "3", "2", "5", "5", "4">>
T_micro_y == <<"2", "5", "0", "1", "7", "6", "0", "4">>
T_edge_x == <<"1", "2", "3", "5", "0", "0", "0", "0", "0">>
T_edge_y == <<"2", "7", "0", "0", "0", "0", "0", "0">>
T_atm == <<"0", "1", "A", "T", "M">>

\* the elements a sample document is made of
SampleElements ==
  { \* micro-degree coordinates and the marker
    Element(G_GeoPosition,
      <<Child(G_POIName, <<"A">>), Child(<<"X">>, T_micro_x),
        Child(<<"Y">>, T_micro_y), Child(G_StoreImageTitle, TOILET_MARKER),
        Child(G_Address, <<"R", "d">>), Child(G_Telno, <<"0", "2">>)>>),
    \* no Y, a service element without text
    Element(K_geoposition,
      <<Child(<<"x">>, <<"1", "2", "1", ".", "5">>),
        NilChild(G_StoreImageTitle)>>),
    \* decimal coordinates outside the range (X exactly 1000 is not rescaled),
    \* no service element at all
    Element(G_upper,
      <<Child(<<"X">>, <<"1", "0", "0", "0">>),
        Child(<<"Y">>, <<"3", "5", ".", "6">>),
        Child(G_OP_TIME, <<"2", "4", "H">>)>>),
    \* blank X, the marker inside a longer padded text
    Element(G_GeoPosition,
      <<Child(<<"X">>, <<" ">>), Child(<<"Y">>, T_micro_y),
        Child(G_StoreImageTitle, <<" ">> \o T_atm \o <<",">> \o TOILET_MARKER \o <<" ">>)>>),
    \* not a target element
    Element(G_MessageID, <<>>),
    \* a repeated X whose later text is no number, a truncated marker
    Element(G_GeoPosition,
      <<Child(<<"X">>, T_micro_x), Child(<<"Y">>, T_micro_y),
        Child(<<"x">>, <<"a", "b", "c">>),
        Child(G_StoreImageTitle, <<"0", "2", "U+5EC1">>)>>),
    \* the corner of the range, the marker
    Element(G_GeoPosition,
      <<Child(<<"X">>, T_edge_x), Child(<<"Y">>, T_edge_y),
        Child(G_StoreImageTitle, TOILET_MARKER)>>),
    \* nan is a float
    Element(G_GeoPosition,
      <<Child(<<"X">>, <<"n", "a", "n">>), Child(<<"Y">>, <<"2", "5", ".", "0">>),
        Child(G_StoreImageTitle, TOILET_MARKER)>>) }

\* the most elements in a sample document
MaxElements == 2

SampleDocuments == UNION {[1..n -> SampleElements] : n \in 0..MaxElements}

\* what the output destination held before the run
StaleRows == <<<<<<"stale">>>>>>

-----------------------------------------------------------------------------
(* State                                                                   *)

VARIABLES
  args,             \* the parsed command line
  input_xml,        \* the file at args.input
  output_csv,       \* the file at args.output
  pc,               \* where main is
  iter,             \* the generator iter_711_stores
  store,            \* the mapping the generator yielded last
  rows,             \* <<prisma_row, debug_row>> of the current record
  total, written, missing_coord, suspicious_coord,
  exc,              \* the exception being raised
  stdout,           \* what main and export_csv have printed
  status,           \* the value main returned
  previous,         \* the outcome of the run before this one
  x_raw, y_raw,     \* the arguments of _normalize_lng_lat called on its own
  lng_lat,          \* its result
  lng_lat_again,    \* the result of normalizing the text of that result
  npc

vars ==
  <<args, input_xml, output_csv, pc, iter, store, rows, total, written,
    missing_coord, suspicious_coord, exc, stdout, status, previous,
    x_raw, y_raw, lng_lat, lng_lat_again, npc>>

norm_vars == <<x_raw, y_raw, lng_lat, lng_lat_again, npc>>

main_vars ==
  <<args, input_xml, output_csv, pc, iter, store, rows, total, written,
    missing_coord, suspicious_coord, exc, stdout, status, previous>>

include_debug == ~args.no_debug
only_toilets == args.only_toilets

NoStore == [k \in {} |-> <<>>]
NoRows == <<>>
NoRun == [ran |-> FALSE]

NoFile == [exists |-> FALSE, content |-> <<>>]
StaleFile == [exists |-> TRUE, content |-> StaleRows]

\* the state of a run of main that has parsed its arguments
Started(a, in, out) ==
  /\ args = a
  /\ input_xml = in
  /\ output_csv = out
  /\ pc = "main"
  /\ iter = [st |-> "none", pos |-> 0]
  /\ store = NoStore
  /\ rows = NoRows
  /\ total = 0 /\ written = 0 /\ missing_coord = 0 /\ suspicious_coord = 0
  /\ exc = "none"
  /\ stdout = <<>>
  /\ status = -1

NormIdle ==
  /\ x_raw = <<>> /\ y_raw = <<>>
  /\ lng_lat = <<None, None>> /\ lng_lat_again = <<None, None>>
  /\ npc = "idle"

SampleArgs ==
  [input : {"711_data.xml"}, output : {"711_locations.csv"},
   only_toilets : BOOLEAN, no_debug : BOOLEAN]

\* the input path: no such file, a file that may not be read, or a document
\* (well formed, or broken after its last listed element)
SampleInputs ==
  {[st |-> "missing", events |-> <<>>, well_formed |-> TRUE],
   [st |-> "denied", events |-> <<>>, well_formed |-> TRUE]}
    \cup [st : {"file"}, events : SampleDocuments, well_formed : BOOLEAN]

\* the output path: writable (new, or holding stale rows), in a directory
\* that does not exist, an existing file that may not be written, or an
\* existing file on a device that takes no data row
SampleOutputs ==
  {[st |-> "nodir", exists |-> FALSE, content |-> <<>>, open |-> FALSE,
    before |-> NoFile]}
    \cup {[st |-> "ok", exists |-> b.exists, content |-> b.content, open |-> FALSE,
           before |-> b] : b \in {NoFile, StaleFile}}
    \cup {[st |-> o, exists |-> TRUE, content |-> StaleRows, open |-> FALSE,
           before |-> StaleFile] : o \in {"denied", "full"}}

Init ==
  /\ \E a \in SampleArgs, in \in SampleInputs, out \in SampleOutputs :
       Started(a, in, out)
  /\ previous = NoRun
  /\ NormIdle

-----------------------------------------------------------------------------
(* export_csv                                                              *)

\* no with block: an exception leaves the file open
Closed_LeftOpen(f) == f

\* leaving the with block closes the file; what was written stays
Closed(f) == [f EXCEPT !.open = FALSE]

Raise(e) ==
  /\ exc' = e
  /\ pc' = "except"

\* the input checked before the output is opened
OpenOutput_InputFirst ==
  /\ pc = "main"
  /\ IF input_xml.st = "missing"
     THEN exc' = "FileNotFoundError" /\ pc' = "except" /\ UNCHANGED output_csv
     ELSE IF output_csv.st = "nodir"
     THEN exc' = "FileNotFoundError" /\ pc' = "except" /\ UNCHANGED output_csv
     ELSE IF output_csv.st = "denied"
     THEN exc' = "PermissionError" /\ pc' = "except" /\ UNCHANGED output_csv
     ELSE /\ output_csv' =
               [output_csv EXCEPT !.exists = TRUE, !.content = <<>>, !.open = TRUE]
          /\ pc' = "header"
          /\ UNCHANGED exc
  /\ UNCHANGED <<args, input_xml, iter, store, rows, total, written,
                 missing_coord, suspicious_coord, stdout, status, previous,
                 norm_vars>>

\* open(output_csv, "w", ...)
OpenOutput ==
  /\ pc = "main"
  /\ IF output_csv.st = "nodir"
     THEN Raise("FileNotFoundError") /\ UNCHANGED output_csv
     ELSE IF output_csv.st = "denied"
     THEN Raise("PermissionError") /\ UNCHANGED output_csv
     ELSE /\ output_csv' =
               [output_csv EXCEPT !.exists = TRUE, !.content = <<>>, !.open = TRUE]
          /\ pc' = "header"
          /\ UNCHANGED exc
  /\ UNCHANGED <<args, input_xml, iter, store, rows, total, written,
                 missing_coord, suspicious_coord, stdout, status, previous,
                 norm_vars>>

\* writer.writeheader(), and the call that creates the generator
WriteHeader ==
  /\ pc = "header"
  /\ output_csv' =
       [output_csv EXCEPT !.content = <<HeaderRow(fieldnames(include_debug))>>]
  /\ iter' = [st |-> "created", pos |-> 0]
  /\ pc' = "loop"
  /\ UNCHANGED <<args, input_xml, store, rows, total, written, missing_coord,
                 suspicious_coord, exc, stdout, status, previous, norm_vars>>

\* the positions after pos of the elements iter_711_stores yields
TargetsAfter(events, pos) ==
  {j \in (pos + 1)..Len(events) : IsTarget(events[j])}

\* next(iter_711_stores(input_xml)): the first pull opens the input
PullStore ==
  /\ pc = "loop"
  /\ IF iter.st = "created" /\ input_xml.st # "file"
     THEN /\ Raise(IF input_xml.st = "missing" THEN "FileNotFoundError"
                   ELSE "PermissionError")
          /\ iter' = [iter EXCEPT !.st = "finished"]
          /\ output_csv' = Closed(output_csv)
          /\ UNCHANGED store
     ELSE LET after == TargetsAfter(input_xml.events, iter.pos)
          IN  IF after # {}
              THEN LET j == CHOOSE i \in after : \A k \in after : i <= k
                   IN  /\ iter' = [st |-> "suspended", pos |-> j]
                       /\ store' = element_to_dict_case_insensitive(input_xml.events[j])
                       /\ pc' = "count"
                       /\ UNCHANGED <<exc, output_csv>>
              ELSE /\ iter' = [st |-> "finished", pos |-> Len(input_xml.events)]
                   /\ output_csv' = Closed(output_csv)
                   /\ UNCHANGED store
                   /\ IF input_xml.well_formed
                      THEN pc' = "summary" /\ UNCHANGED exc
                      ELSE Raise("ParseError")
  /\ UNCHANGED <<args, input_xml, rows, total, written, missing_coord,
                 suspicious_coord, stdout, status, previous, norm_vars>>

\* total += 1; prisma_row, debug_row = build_location_row(store)
CountAndBuild ==
  /\ pc = "count"
  /\ total' = total + 1
  /\ rows' = build_location_row(store)
  /\ pc' = "filter"
  /\ UNCHANGED <<args, input_xml, output_csv, iter, store, written,
                 missing_coord, suspicious_coord, exc, stdout, status, previous,
                 norm_vars>>

\* the filter applied whatever only_toilets is
Skipped_IgnoringFlag == ~ExportHasToilet(rows[2])

\* if only_toilets and not has_toilet: continue
Skipped == only_toilets /\ ~ExportHasToilet(rows[2])

FilterSkip ==
  /\ pc = "filter"
  /\ Skipped
  /\ pc' = "loop"
  /\ UNCHANGED <<args, input_xml, output_csv, iter, store, rows, total, written,
                 missing_coord, suspicious_coord, exc, stdout, status, previous,
                 norm_vars>>

\* the coordinate bookkeeping of a record that is kept
Bookkeep ==
  /\ pc = "filter"
  /\ ~Skipped
  /\ LET lat == rows[1].lat
         lng == rows[1].lng
     IN  IF IsEmptyStr(lat) \/ IsEmptyStr(lng)
         THEN /\ missing_coord' = missing_coord + 1
              /\ UNCHANGED suspicious_coord
         ELSE /\ suspicious_coord' =
                   IF ~InTaiwanRange(lat.v, lng.v)
                   THEN suspicious_coord + 1 ELSE suspicious_coord
              /\ UNCHANGED missing_coord
  /\ pc' = "write"
  /\ UNCHANGED <<args, input_xml, output_csv, iter, store, rows, total, written,
                 exc, stdout, status, previous, norm_vars>>

\* the row written but not counted
WriteRow_Uncounted ==
  /\ pc = "write"
  /\ output_csv.st # "full"
  /\ output_csv' =
       [output_csv EXCEPT !.content =
          Append(@, CsvRow(MergedRow(rows[1], rows[2], include_debug),
                           fieldnames(include_debug)))]
  /\ stdout' = Append(stdout, [kind |-> "rule"])
  /\ pc' = "loop"
  /\ UNCHANGED <<args, input_xml, iter, store, rows, total, written, missing_coord,
                 suspicious_coord, exc, status, previous, norm_vars>>

\* writer.writerow(row); written += 1; print("-" * 60)
WriteRow ==
  /\ pc = "write"
  /\ output_csv.st # "full"
  /\ output_csv' =
       [output_csv EXCEPT !.content =
          Append(@, CsvRow(MergedRow(rows[1], rows[2], include_debug),
                           fieldnames(include_debug)))]
  /\ written' = written + 1
  /\ stdout' = Append(stdout, [kind |-> "rule"])
  /\ pc' = "loop"
  /\ UNCHANGED <<args, input_xml, iter, store, rows, total, missing_coord,
                 suspicious_coord, exc, status, previous, norm_vars>>

\* writer.writerow(row) raises: the device takes no more data
WriteFail ==
  /\ pc = "write"
  /\ output_csv.st = "full"
  /\ Raise("OSError")
  /\ output_csv' = Closed(output_csv)
  /\ UNCHANGED <<args, input_xml, iter, store, rows, total, written,
                 missing_coord, suspicious_coord, stdout, status, previous,
                 norm_vars>>

\* the summary export_csv prints, and main's return 0
PrintSummary ==
  /\ pc = "summary"
  /\ stdout' =
       stdout
         \o <<[kind |-> "summary", input |-> args.input, output |-> args.output,
               total |-> total, written |-> written,
               only_toilets |-> only_toilets, missing_coord |-> missing_coord,
               suspicious_coord |-> suspicious_coord]>>
         \o (IF missing_coord > 0 THEN <<[kind |-> "missing_warning"]>> ELSE <<>>)
  /\ status' = 0
  /\ pc' = "exit"
  /\ UNCHANGED <<args, input_xml, output_csv, iter, store, rows, total, written,
                 missing_coord, suspicious_coord, exc, previous, norm_vars>>

-----------------------------------------------------------------------------
(* main's exception handlers                                               *)

Handled(message) ==
  /\ stdout' = Append(stdout, message)
  /\ status' = 1
  /\ pc' = "exit"
  /\ UNCHANGED <<args, input_xml, output_csv, iter, store, rows, total, written,
                 missing_coord, suspicious_coord, exc, previous, norm_vars>>

\* except FileNotFoundError
HandleFileNotFound ==
  /\ pc = "except"
  /\ exc = "FileNotFoundError"
  /\ Handled([kind |-> "not_found", path |-> args.input])

\* except ET.ParseError
HandleParseError ==
  /\ pc = "except"
  /\ exc = "ParseError"
  /\ Handled([kind |-> "parse_error"])

\* except Exception
HandleException ==
  /\ pc = "except"
  /\ exc \notin {"FileNotFoundError", "ParseError"}
  /\ Handled([kind |-> "unexpected", error |-> exc])

Next ==
  \/ OpenOutput
  \/ WriteHeader
  \/ PullStore
  \/ CountAndBuild
  \/ FilterSkip
  \/ Bookkeep
  \/ WriteRow
  \/ WriteFail
  \/ PrintSummary
  \/ HandleFileNotFound
  \/ HandleParseError
  \/ HandleException

Spec == Init /\ [][Next]_vars

-----------------------------------------------------------------------------
(* Running main again on the same files with the other value of --no-debug *)

Outcome ==
  [ran |-> TRUE, no_debug |-> args.no_debug, content |-> output_csv.content,
   exists |-> output_csv.exists, total |-> total, written |-> written,
   missing_coord |-> missing_coord, suspicious_coord |-> suspicious_coord,
   exc |-> exc, status |-> status]

Rerun ==
  /\ pc = "exit"
  /\ ~previous.ran
  /\ previous' = Outcome
  /\ args' = [args EXCEPT !.no_debug = ~@]
  /\ output_csv' =
       [output_csv EXCEPT
          !.before = [exists |-> output_csv.exists, content |-> output_csv.content]]
  /\ pc' = "main"
  /\ iter' = [st |-> "none", pos |-> 0]
  /\ store' = NoStore
  /\ rows' = NoRows
  /\ total' = 0 /\ written' = 0 /\ missing_coord' = 0 /\ suspicious_coord' = 0
  /\ exc' = "none"
  /\ stdout' = <<>>
  /\ status' = -1
  /\ UNCHANGED <<input_xml, norm_vars>>

NextRerun == Next \/ Rerun

SpecRerun == Init /\ [][NextRerun]_vars

-----------------------------------------------------------------------------
(* _normalize_lng_lat on its own, and again on the text of its result      *)

SampleRawTexts ==
  { <<>>, <<" ">>, <<"a", "b", "c">>, <<"n", "a", "n">>, <<"-", "i", "n", "f">>,
    T_micro_x, T_micro_y, <<"-">> \o T_micro_x,
    <<"1", "2", "1", ".", "5">>, <<"2", "5", ".", "0">>, <<" ", "2", "5", " ">>,
    <<"1", "0", "0", "0">>, <<"-", "1", "0", "0", "0">>, <<"1", "0", "0", "1">>,
    <<"1", "0", "0", "0", ".", "5">>, <<"1", "e", "3">>,
    <<"1", "0", "0", "0", "0", "0", "0", "0", "0", "0">>,
    <<"2", "0", "0", "0", "0", "0", "0", "0", "0", "0">>,
    <<"1", "0", "0", "0", "0", "0", "0", "0", "0", "1">>,
    <<"0", ".", "0", "0", "0", "0", "1">> }

MainIdle ==
  /\ args = [input |-> "711_data.xml", output |-> "711_locations.csv",
             only_toilets |-> FALSE, no_debug |-> FALSE]
  /\ input_xml = [st |-> "missing", events |-> <<>>, well_formed |-> TRUE]
  /\ output_csv = [st |-> "ok", exists |-> FALSE, content |-> <<>>, open |-> FALSE,
                   before |-> NoFile]
  /\ pc = "idle"
  /\ iter = [st |-> "none", pos |-> 0]
  /\ store = NoStore
  /\ rows = NoRows
  /\ total = 0 /\ written = 0 /\ missing_coord = 0 /\ suspicious_coord = 0
  /\ exc = "none"
  /\ stdout = <<>>
  /\ status = -1
  /\ previous = NoRun

InitNorm ==
  /\ MainIdle
  /\ x_raw \in SampleRawTexts
  /\ y_raw \in SampleRawTexts
  /\ lng_lat = <<None, None>>
  /\ lng_lat_again = <<None, None>>
  /\ npc = "call"

Normalize ==
  /\ npc = "call"
  /\ lng_lat' = normalize_lng_lat(x_raw, y_raw)
  /\ npc' = "returned"
  /\ UNCHANGED <<x_raw, y_raw, lng_lat_again, main_vars>>

\* the result, written as the csv writer writes it, is normalized again
NormalizeAgain ==
  /\ npc = "returned"
  /\ lng_lat[1] # None
  /\ lng_lat_again' = normalize_lng_lat(FloatRepr(lng_lat[1]), FloatRepr(lng_lat[2]))
  /\ npc' = "again"
  /\ UNCHANGED <<x_raw, y_raw, lng_lat, main_vars>>

NextNorm == Normalize \/ NormalizeAgain

SpecNorm == InitNorm /\ [][NextNorm]_vars

-----------------------------------------------------------------------------
(* What the claims are stated in                                           *)

\* the marker, character by character, somewhere in the text
MarkerIn(text) ==
  \E i \in 1..(Len(text) - 3) :
    /\ text[i] = "0" /\ text[i + 1] = "2"
    /\ text[i + 2] = "U+5EC1" /\ text[i + 3] = "U+6240"

\* the service-tag predicate of a target element of the document
ServiceTag(elem) ==
  MarkerIn(Get(element_to_dict_case_insensitive(elem), K_storeimagetitle))

\* the target elements among the first n elements of the document
Yielded(n) == SelectSeq(SubSeq(input_xml.events, 1, n), IsTarget)

KeptByFilter(elem) == ~only_toilets \/ ServiceTag(elem)

\* the position up to which every yielded record went through the whole
\* loop body (the record being handled, or the one whose write failed, did not)
Processed ==
  IF pc \in {"count", "filter", "write"} \/ exc = "OSError"
  THEN iter.pos - 1 ELSE iter.pos

\* the loop is between two iterations, or export_csv has returned
AtIterationEnd == pc \in {"loop", "summary"} \/ (pc = "exit" /\ status = 0)

OutputOpened == output_csv.st \in {"ok", "full"} /\ pc \notin {"main", "idle"}

DataRows == IF output_csv.content = <<>> THEN <<>> ELSE Tail(output_csv.content)

Column(name) ==
  CHOOSE i \in 1..(Len(prisma_fields) + Len(debug_fields)) :
    (prisma_fields \o debug_fields)[i] = name

Text_True == <<"True">>

\* C1: written + skipped = total after every completed iteration and when
\* export_csv finishes, skipped being the yielded records that only_toilets
\* excludes; without only_toilets, written = total.
C1_WrittenPlusSkipped ==
  AtIterationEnd =>
    LET skipped ==
          Cardinality({j \in 1..iter.pos :
            /\ IsTarget(input_xml.events[j])
            /\ only_toilets /\ ~ServiceTag(input_xml.events[j])})
    IN  /\ written + skipped = total
        /\ ~only_toilets => written = total

C1_Witness ==
  /\ pc = "exit" /\ status = 0
  /\ only_toilets
  /\ total = 2 /\ written = 1

\* C7: the debug row's tag is the marker's presence in storeimagetitle (false
\* for an absent or empty field), export_csv's filter is that predicate, and
\* the rows written are exactly the records that only_toilets does not
\* exclude, each carrying its own tag.
C7_FilterIsServiceTag ==
  /\ pc = "filter" =>
       LET text == Get(store, K_storeimagetitle)
       IN  /\ rows[2].has_toilet_service_tag.v = MarkerIn(text)
           /\ ExportHasToilet(rows[2]) = rows[2].has_toilet_service_tag.v
           /\ (K_storeimagetitle \notin DOMAIN store \/ text = <<>>)
                => ~rows[2].has_toilet_service_tag.v
  /\ (AtIterationEnd /\ OutputOpened) =>
       LET kept == SelectSeq(Yielded(iter.pos), KeptByFilter)
           data == DataRows
       IN  /\ Len(data) = Len(kept)
           /\ written = Len(kept)
           /\ ~only_toilets => written = Len(Yielded(iter.pos))
           /\ include_debug =>
                \A i \in 1..Len(data) :
                  /\ (data[i][Column("has_toilet_service_tag")] = Text_True)
                       = ServiceTag(kept[i])
                  /\ only_toilets =>
                       data[i][Column("has_toilet_service_tag")] = Text_True

C7_Witness ==
  /\ pc = "exit" /\ status = 0
  /\ only_toilets /\ include_debug
  /\ Len(Yielded(iter.pos)) = 2
  /\ Len(DataRows) = 1
  /\ ~ServiceTag(Yielded(iter.pos)[1])
  /\ DataRows[1][Column("has_toilet_service_tag")] = Text_True

\* the raw coordinate field is missing, empty or no number
Unusable(st, key) ==
  key \notin DOMAIN st \/ st[key] = <<>> \/ parse_float(st[key]) = None

\* C4: coordinates are both or neither. A record whose x or y is missing,
\* empty or unparsable gets lat = "" and lng = "", any other record gets two
\* floats, and in every written row the lat cell is empty iff the lng cell is.
C4_BothOrNeither ==
  /\ pc \in {"filter", "write"} =>
       LET lat == rows[1].lat
           lng == rows[1].lng
       IN  IF Unusable(store, K_x) \/ Unusable(store, K_y)
           THEN IsEmptyStr(lat) /\ IsEmptyStr(lng)
           ELSE lat.py = "float" /\ lng.py = "float"
  /\ OutputOpened =>
       \A i \in 1..Len(DataRows) :
         (DataRows[i][Column("lat")] = <<>>) = (DataRows[i][Column("lng")] = <<>>)

\* a record with a usable x and no y at all has been written with both empty
C4_Witness ==
  /\ pc = "loop"
  /\ ~Unusable(store, K_x) /\ K_y \notin DOMAIN store
  /\ Len(DataRows) = 1
  /\ DataRows[1][Column("lat")] = <<>> /\ DataRows[1][Column("lng")] = <<>>

\* latitude in [20.0, 27.0] and longitude in [118.0, 123.5]
InsideBox(lat, lng) ==
  /\ Le(Fin(1, 20, 0), lat) /\ Le(lat, Fin(1, 27, 0))
  /\ Le(Fin(1, 118, 0), lng) /\ Le(lng, Fin(1, 1235, -1))

RowMissing(row) == row[Column("lat")] = <<>> \/ row[Column("lng")] = <<>>

RowSuspicious(row) ==
  /\ ~RowMissing(row)
  /\ ~InsideBox(parse_float(row[Column("lat")]), parse_float(row[Column("lng")]))

\* C6: between iterations and at the end, missing_coord is the number of
\* written rows with an empty lat or lng, suspicious_coord the number of
\* written rows with both present and outside the box; skipped records count
\* in neither, so missing_coord + suspicious_coord <= written <= total.
C6_CoordinateBookkeeping ==
  (AtIterationEnd /\ OutputOpened) =>
    LET data == DataRows
    IN  /\ written = Len(data)
        /\ missing_coord = Cardinality({i \in 1..Len(data) : RowMissing(data[i])})
        /\ suspicious_coord =
             Cardinality({i \in 1..Len(data) : RowSuspicious(data[i])})
        /\ missing_coord + suspicious_coord <= written
        /\ written <= total

\* one record without coordinates was skipped, one suspicious row was written
C6_Witness ==
  /\ pc = "exit" /\ status = 0
  /\ only_toilets
  /\ total = 2 /\ written = 1
  /\ missing_coord = 0 /\ suspicious_coord = 1
  /\ \E j \in 1..Len(input_xml.events) :
       /\ IsTarget(input_xml.events[j])
       /\ ~ServiceTag(input_xml.events[j])
       /\ Unusable(element_to_dict_case_insensitive(input_xml.events[j]), K_y)

\* the row export_csv writes for a target element
RowOf(elem) ==
  LET built == build_location_row(element_to_dict_case_insensitive(elem))
  IN  CsvRow(MergedRow(built[1], built[2], include_debug), fieldnames(include_debug))

\* the rows of the retained records among those handled so far, in document order
RECURSIVE RowsOf(_)
RowsOf(elems) ==
  IF elems = <<>> THEN <<>>
  ELSE (IF KeptByFilter(Head(elems)) THEN <<RowOf(Head(elems))>> ELSE <<>>)
         \o RowsOf(Tail(elems))

ExpectedRows == RowsOf(Yielded(Processed))

\* C9: once the header is written the file is the header followed by the
\* rows of the retained records handled so far, in document order (so a row,
\* once written, stays as it is and where it is); a ParseError after N rows
\* leaves the file closed with the header and those N rows and nothing else.
C9_IncrementalOutput ==
  /\ (OutputOpened /\ pc # "header") =>
       output_csv.content = <<HeaderRow(fieldnames(include_debug))>> \o ExpectedRows
  /\ exc = "ParseError" =>
       /\ pc \in {"except", "exit"}
       /\ ~output_csv.open /\ output_csv.exists
       /\ Len(output_csv.content) = 1 + written
       /\ pc = "exit" => status = 1

\* a ParseError after two rows were written
C9_Witness ==
  /\ pc = "exit" /\ exc = "ParseError"
  /\ written = 2
  /\ Len(output_csv.content) = 3
  /\ ~output_csv.open

\* C10: the input is opened by the first pull, after the output was truncated
\* and the header written: with no input file the run fails with
\* FileNotFoundError and leaves the output holding the header row alone,
\* whatever it held before.
C10_MissingInputLeavesHeader ==
  (input_xml.st = "missing" /\ OutputOpened) =>
    /\ exc \in {"none", "FileNotFoundError"}
    /\ exc = "none" => pc \in {"header", "loop"}
    /\ exc = "FileNotFoundError" =>
         /\ output_csv.exists /\ ~output_csv.open
         /\ output_csv.content = <<HeaderRow(fieldnames(include_debug))>>
         /\ written = 0 /\ total = 0
         /\ pc = "exit" =>
              /\ status = 1
              /\ stdout = <<[kind |-> "not_found", path |-> args.input]>>

C10_Witness ==
  /\ pc = "exit"
  /\ input_xml.st = "missing"
  /\ output_csv.before = StaleFile
  /\ output_csv.content = <<HeaderRow(fieldnames(include_debug))>>
  /\ status = 1

LastMessage == IF stdout = <<>> THEN "none" ELSE stdout[Len(stdout)].kind

\* C8: main returns 0 iff export_csv did not raise; the file-not-found
\* message is printed exactly when the input path is no readable file, the
\* XML-parse message exactly when the input is not well formed, the generic
\* message for every other failure (opening or writing the output included),
\* and every failure returns a non-zero status.
C8_FailureKinds ==
  pc = "exit" =>
    /\ (status = 0) = (exc = "none")
    /\ exc # "none" => status # 0
    /\ LastMessage = "not_found" =>
         /\ input_xml.st # "file"
         /\ stdout[Len(stdout)].path = args.input
    /\ (input_xml.st # "file" /\ output_csv.st \in {"ok", "full"})
         => LastMessage = "not_found"
    /\ LastMessage = "parse_error" => (input_xml.st = "file" /\ ~input_xml.well_formed)
    /\ (input_xml.st = "file" /\ ~input_xml.well_formed /\ output_csv.st = "ok")
         => LastMessage = "parse_error"
    /\ (input_xml.st = "file" /\ exc \notin {"none", "ParseError"})
         => LastMessage = "unexpected"

Canonical(row) == SubSeq(row, 1, Len(prisma_fields))

WidthWith(debug) == Len(prisma_fields) + (IF debug THEN Len(debug_fields) ELSE 0)

\* C2: a second run on the same files with the other value of include_debug
\* ends like the first: as many rows, in the same order, with the same
\* canonical cells, and the same counters; only the trailing debug cells are
\* present in one and absent in the other.
C2_DebugOnlyAddsColumns ==
  (pc = "exit" /\ previous.ran) =>
    /\ total = previous.total /\ written = previous.written
    /\ missing_coord = previous.missing_coord
    /\ suspicious_coord = previous.suspicious_coord
    /\ status = previous.status
    /\ OutputOpened =>
         LET cur == output_csv.content
             old == previous.content
         IN  /\ Len(cur) = Len(old)
             /\ \A i \in 1..Len(cur) :
                  /\ Canonical(cur[i]) = Canonical(old[i])
                  /\ Len(cur[i]) = WidthWith(include_debug)
                  /\ Len(old[i]) = WidthWith(~previous.no_debug)
                  /\ Len(cur[i]) # Len(old[i])

C2_Witness ==
  /\ pc = "exit" /\ previous.ran
  /\ status = 0 /\ written = 2
  /\ include_debug
  /\ Len(output_csv.content[2]) = Len(previous.content[2]) + Len(debug_fields)

\* v * 1_000_000
TimesMillion(v) == IF v.k = "fin" THEN Fin(v.s, v.m, v.e + 6) ELSE v

Thousand == Fin(1, 1, 3)

\* the value normalization gives for one parsed axis value
AxisRescaled(v, r) ==
  /\ Gt(Abs(v), Thousand) => TimesMillion(r) = v
  /\ Le(Abs(v), Thousand) => r = v

\* C5: each axis of a parsable pair is divided by 1,000,000 exactly when its
\* magnitude exceeds 1000 (1000 and -1000 themselves pass unchanged), one
\* axis independently of the other; X gives lng and Y gives lat, and
\* (121532554, 25017604) gives lng 121.532554, lat 25.017604.
C5_PerAxisRescaling ==
  npc \in {"returned", "again"} =>
    LET x == parse_float(x_raw)
        y == parse_float(y_raw)
    IN  /\ (x # None /\ y # None) =>
             /\ AxisRescaled(x, lng_lat[1])
             /\ AxisRescaled(y, lng_lat[2])
        /\ (x_raw = T_micro_x /\ y_raw = T_micro_y) =>
             /\ FloatRepr(lng_lat[1]) = <<"1", "2", "1", ".", "5", "3", "2", "5", "5", "4">>
             /\ FloatRepr(lng_lat[2]) = <<"2", "5", ".", "0", "1", "7", "6", "0", "4">>
        /\ (x_raw = <<"1", "0", "0", "0">> /\ y_raw = <<"-", "1", "0", "0", "0">>) =>
             /\ FloatRepr(lng_lat[1]) = <<"1", "0", "0", "0", ".", "0">>
             /\ FloatRepr(lng_lat[2]) = <<"-", "1", "0", "0", "0", ".", "0">>

\* x is rescaled and y, already decimal, is not
C5_Witness ==
  /\ npc = "returned"
  /\ x_raw = T_micro_x /\ y_raw = <<"2", "5", ".", "0">>
  /\ FloatRepr(lng_lat[1]) = <<"1", "2", "1", ".", "5", "3", "2", "5", "5", "4">>
  /\ FloatRepr(lng_lat[2]) = <<"2", "5", ".", "0">>

\* C3 as claimed: for every parsable pair, normalizing the result of a
\* normalization returns that result unchanged.
C3_IdempotentForEveryPair ==
  npc = "again" => lng_lat_again = lng_lat

\* 1000 * 1,000,000: up to here one rescaling brings a value to 1000 or below
Billion == Fin(1, 1, 9)

\* C3 as amended: normalizing the result again returns it unchanged for every
\* parsable pair whose values have a magnitude of at most 1,000,000,000; an
\* already-decimal pair such as (121.5, 25.0) is returned unchanged.
C3_IdempotentUpToBillion ==
  npc = "again" =>
    /\ (Le(Abs(parse_float(x_raw)), Billion) /\ Le(Abs(parse_float(y_raw)), Billion))
         => lng_lat_again = lng_lat
    /\ (x_raw = <<"1", "2", "1", ".", "5">> /\ y_raw = <<"2", "5", ".", "0">>) =>
         /\ FloatRepr(lng_lat_again[1]) = <<"1", "2", "1", ".", "5">>
         /\ FloatRepr(lng_lat_again[2]) = <<"2", "5", ".", "0">>

\* a micro-degree pair, rescaled once and left alone the second time
C3_Witness ==
  /\ npc = "again"
  /\ x_raw = T_micro_x /\ y_raw = T_micro_y
  /\ lng_lat # <<parse_float(x_raw), parse_float(y_raw)>>
  /\ lng_lat_again = lng_lat

====
